---- MODULE Spec2Model ----
(***************************************************************************)
(* A model of yaslog's src/logger.rs: LoggerBuilder::build / apply /       *)
(* rotate_file, the process-wide logger slot that dispatch.apply() fills,  *)
(* and the files app.log / app.log.old of each directory target.           *)
(*                                                                         *)
(* Sizes are counted in records: a log line is one unit of file length.    *)
(* A record is represented by its level; the timestamp, target, line and   *)
(* message of the formatted line are not modelled.                         *)
(* An open file handle is tracked by the place its file currently has in   *)
(* the directory ("log", "old", or "gone" once the file was unlinked), so  *)
(* a rename moves the handles that were opened on the renamed file.        *)
(***************************************************************************)
EXTENDS Integers, Sequences, FiniteSets, TLC

\* ---------------------------------------------------------------- bounds
MaxLogLen == 2
MaxThreshold == 1
MaxTargets == 2

Dirs == {"d1"}

\* ------------------------------------------------------- program constants
DEFAULT_MAX_FILE_SIZE == 1024 * 1024

\* log::LevelFilter (Off = 0 .. Trace = 5) and log::Level (Error = 1 .. Trace = 5)
Off == 0
Error == 1
Warn == 2
Info == 3
Debug == 4
Trace == 5
LevelFilter == Off..Trace
Level == Error..Trace

\* ------------------------------------------------------------------ values
Console == [kind |-> "Console", dir |-> ""]
Dir(d) == [kind |-> "Dir", dir |-> d]
LogTarget == {Console} \cup {Dir(d) : d \in Dirs}

NoFile == [exists |-> FALSE, data |-> <<>>]
EmptyFile == [exists |-> TRUE, data |-> <<>>]

\* File::open(&path)?.metadata()?.len()
log_size(f) == Len(f.data)

StdoutSink == [kind |-> "Console", dir |-> "", at |-> ""]
FileSink(d) == [kind |-> "File", dir |-> d, at |-> "log"]

\* The errors build() returns, named by the call that failed.
Errors == {"Err:metadata", "Err:remove_file", "Err:rename", "Err:log_file", "Err:SetLoggerError"}

NoLogger == [set |-> FALSE, level |-> Off, sinks |-> <<>>]
NoDispatch == [level |-> Off, sinks |-> <<>>]

VARIABLES
  dirs,       \* dirs[d]: the directory d exists
  files,      \* files[d] = [log |-> app.log, old |-> app.log.old], each [exists, data]
  installed,  \* the process-wide logger: [set, level, sinks]
  stdout,     \* the lines the latest log call wrote to standard output
  logger,     \* the Logger value of the build() in progress or last called
  dispatch,   \* the fern::Dispatch under construction in apply()
  i,          \* position of apply()'s loop in logger.targets
  pc,         \* "idle", or where the running build() stands
  ret,        \* what the latest build() returned: "none", "Ok", an error, "panic"
  op,         \* the latest operation: "start", "build", "emit"
  rec,        \* the level of the record of the latest log call, Off after another operation
  pre         \* files as they were when the latest operation began

vars == <<dirs, files, installed, stdout, logger, dispatch, i, pc, ret, op, rec, pre>>

\* ----------------------------------------------------------- LoggerBuilder
new == [level |-> Trace, max_file_size |-> DEFAULT_MAX_FILE_SIZE, targets |-> <<>>]

level(self, l) == [self EXCEPT !.level = l]

max_file_size(self, m) == [self EXCEPT !.max_file_size = m]

targets(self, ts) == [self EXCEPT !.targets = self.targets \o ts]

Init ==
  /\ dirs = [d \in Dirs |-> FALSE]
  /\ files = [d \in Dirs |-> [log |-> NoFile, old |-> NoFile]]
  /\ installed = NoLogger
  /\ stdout = <<>>
  /\ logger = new
  /\ dispatch = NoDispatch
  /\ i = 1
  /\ pc = "idle"
  /\ ret = "none"
  /\ op = "start"
  /\ rec = Off
  /\ pre = files

\* ------------------------------------------------------------- rotate_file
\* The outcomes of rotate_file on the files f = [log, old] of one directory:
\* each is the result, the files afterwards, and whether the backup was
\* removed and the active file renamed.  Every I/O call that returns a
\* Result may fail.
Outcome(res, f, removed, renamed) ==
  [res |-> res, log |-> f.log, old |-> f.old, removed |-> removed, renamed |-> renamed]

\* path.exists() is false, or log_size <= max_file_size: nothing is done.
untouched(f) == {Outcome("Ok", f, FALSE, FALSE)}

\* File::open(&path)?.metadata()? fails.
metadata_fails(f) == {Outcome("Err:metadata", f, FALSE, FALSE)}

\* if old_path.exists() { fs::remove_file(&old_path)?; } fails.
remove_file_fails(f) ==
  IF f.old.exists THEN {Outcome("Err:remove_file", f, FALSE, FALSE)} ELSE {}

\* fs::rename(&path, &old_path)? fails, the old backup already removed.
rename_fails(f) ==
  {Outcome("Err:rename", [log |-> f.log, old |-> NoFile], f.old.exists, FALSE)}

\* fs::rename(&path, &old_path)? moves the active file to the backup path.
rename(f) ==
  {Outcome("Ok", [log |-> NoFile, old |-> f.log], f.old.exists, TRUE)}

\* Mutants of rotate_file: the comparison is >=; a missing active file is
\* opened all the same; the active file is appended to the old backup; a
\* failed rename is ignored; the active file is removed in place of the backup.
rotate_file_ge(f, max) ==
  IF ~f.log.exists
  THEN untouched(f)
  ELSE metadata_fails(f)
       \cup
       IF log_size(f.log) >= max
       THEN remove_file_fails(f) \cup rename_fails(f) \cup rename(f)
       ELSE untouched(f)

rotate_file_no_exists(f, max) ==
  metadata_fails(f)
  \cup
  IF f.log.exists
  THEN IF log_size(f.log) > max
       THEN remove_file_fails(f) \cup rename_fails(f) \cup rename(f)
       ELSE untouched(f)
  ELSE {}

rotate_file_append(f, max) ==
  IF ~f.log.exists
  THEN untouched(f)
  ELSE metadata_fails(f)
       \cup
       IF log_size(f.log) > max
       THEN {Outcome("Ok",
                     [log |-> NoFile,
                      old |-> [exists |-> TRUE, data |-> f.old.data \o f.log.data]],
                     FALSE, TRUE)}
       ELSE untouched(f)

rotate_file_ignore(f, max) ==
  IF ~f.log.exists
  THEN untouched(f)
  ELSE metadata_fails(f)
       \cup
       IF log_size(f.log) > max
       THEN remove_file_fails(f)
            \cup {[o EXCEPT !.res = "Ok"] : o \in rename_fails(f)}
            \cup rename(f)
       ELSE untouched(f)

rotate_file_remove_log(f, max) ==
  IF ~f.log.exists
  THEN untouched(f)
  ELSE metadata_fails(f)
       \cup
       IF log_size(f.log) > max
       THEN IF f.old.exists
            THEN remove_file_fails(f)
                 \cup {Outcome("Err:rename", [log |-> NoFile, old |-> f.old], FALSE, FALSE)}
            ELSE rename_fails(f) \cup rename(f)
       ELSE untouched(f)

rotate_file(f, max) ==
  IF ~f.log.exists
  THEN untouched(f)
  ELSE metadata_fails(f)
       \cup
       IF log_size(f.log) > max
       THEN remove_file_fails(f) \cup rename_fails(f) \cup rename(f)
       ELSE untouched(f)

\* Where an open handle points after the backup was removed and/or the
\* active file renamed in directory d.
MoveHandle(s, d, o) ==
  IF s.kind = "File" /\ s.dir = d
  THEN IF s.at = "old" /\ o.removed THEN [s EXCEPT !.at = "gone"]
       ELSE IF s.at = "log" /\ o.renamed THEN [s EXCEPT !.at = "old"]
       ELSE s
  ELSE s

MoveHandles(sinks, d, o) == [k \in 1..Len(sinks) |-> MoveHandle(sinks[k], d, o)]

\* -------------------------------------------------------------------- build
\* LoggerBuilder::new().level(l).max_file_size(m).targets(ts).build():
\* the Logger value is constructed and apply() starts.
build(l, m, ts) ==
  /\ pc = "idle"
  /\ logger' = targets(max_file_size(level(new, l), m), ts)
  /\ dispatch' = [level |-> l, sinks |-> <<>>]
  /\ i' = 1
  /\ pc' = "loop"
  /\ ret' = "none"
  /\ op' = "build"
  /\ pre' = files
  /\ stdout' = <<>>
  /\ rec' = Off
  /\ UNCHANGED <<dirs, files, installed>>

target == logger.targets[i]

\* LogTarget::Console => dispatch.chain(std::io::stdout())
ChainConsole ==
  /\ pc = "loop"
  /\ i <= Len(logger.targets)
  /\ target.kind = "Console"
  /\ dispatch' = [dispatch EXCEPT !.sinks = Append(@, StdoutSink)]
  /\ i' = i + 1
  /\ UNCHANGED <<dirs, files, installed, stdout, logger, pc, ret, op, rec, pre>>

\* if !dir.exists() { fs::create_dir_all(&dir).unwrap(); }
CreateDir ==
  /\ pc = "loop"
  /\ i <= Len(logger.targets)
  /\ target.kind = "Dir"
  /\ IF dirs[target.dir]
     THEN /\ pc' = "rotate"
          /\ UNCHANGED <<dirs, ret>>
     ELSE \/ /\ dirs' = [dirs EXCEPT ![target.dir] = TRUE]
             /\ pc' = "rotate"
             /\ UNCHANGED ret
          \/ /\ pc' = "idle"
             /\ ret' = "panic"
             /\ UNCHANGED dirs
  /\ UNCHANGED <<files, installed, stdout, logger, dispatch, i, op, rec, pre>>

\* Self::rotate_file(dir, logger.max_file_size)?
RotateFile ==
  /\ pc = "rotate"
  /\ \E o \in rotate_file(files[target.dir], logger.max_file_size) :
       /\ files' = [files EXCEPT ![target.dir] = [log |-> o.log, old |-> o.old]]
       /\ installed' = [installed EXCEPT !.sinks = MoveHandles(@, target.dir, o)]
       /\ dispatch' = [dispatch EXCEPT !.sinks = MoveHandles(@, target.dir, o)]
       /\ IF o.res = "Ok"
          THEN pc' = "open" /\ UNCHANGED ret
          ELSE pc' = "idle" /\ ret' = o.res
  /\ UNCHANGED <<dirs, stdout, logger, i, op, rec, pre>>

\* fern::log_file(path): OpenOptions::new().write(true).create(true).append(true).open(path)
log_file(f) == IF f.exists THEN f ELSE EmptyFile

\* Mutant of ChainFile: a file that cannot be opened is skipped.
ChainFile_skip ==
  /\ pc = "open"
  /\ \/ /\ files' = [files EXCEPT ![target.dir].log = log_file(@)]
        /\ dispatch' = [dispatch EXCEPT !.sinks = Append(@, FileSink(target.dir))]
     \/ UNCHANGED <<files, dispatch>>
  /\ i' = i + 1
  /\ pc' = "loop"
  /\ UNCHANGED <<dirs, installed, stdout, logger, ret, op, rec, pre>>

\* dispatch.chain(fern::log_file(path)?)
ChainFile ==
  /\ pc = "open"
  /\ \/ /\ files' = [files EXCEPT ![target.dir].log = log_file(@)]
        /\ dispatch' = [dispatch EXCEPT !.sinks = Append(@, FileSink(target.dir))]
        /\ i' = i + 1
        /\ pc' = "loop"
        /\ UNCHANGED ret
     \/ /\ pc' = "idle"
        /\ ret' = "Err:log_file"
        /\ UNCHANGED <<files, dispatch, i>>
  /\ UNCHANGED <<dirs, installed, stdout, logger, op, rec, pre>>

\* Mutant of dispatch_apply: the logger is replaced when one is set already.
dispatch_apply_replace(global, d) ==
  [res |-> "Ok", global |-> [set |-> TRUE, level |-> d.level, sinks |-> d.sinks]]

\* dispatch.apply()?: log::set_boxed_logger fails when a logger is set
\* already; it sets the logger and the maximum level otherwise.
dispatch_apply(global, d) ==
  IF global.set
  THEN [res |-> "Err:SetLoggerError", global |-> global]
  ELSE [res |-> "Ok", global |-> [set |-> TRUE, level |-> d.level, sinks |-> d.sinks]]

Apply ==
  /\ pc = "loop"
  /\ i > Len(logger.targets)
  /\ LET r == dispatch_apply(installed, dispatch)
     IN  /\ installed' = r.global
         /\ ret' = r.res
  /\ pc' = "idle"
  /\ UNCHANGED <<dirs, files, stdout, logger, dispatch, i, op, rec, pre>>

\* --------------------------------------------------------------- log calls
\* Mutant of enabled: a record at the minimum level itself is dropped.
enabled_strict(lvl, filter) == lvl < filter

\* The level filter of the dispatch and log's maximum level.
enabled(lvl, filter) == lvl <= filter

\* One sink's write of the record.
write(fs, s, r) ==
  IF s.kind = "File" /\ s.at \in {"log", "old"}
  THEN [fs EXCEPT ![s.dir][s.at].data = Append(@, r)]
  ELSE fs

RECURSIVE write_all(_, _, _, _)
write_all(fs, sinks, k, r) ==
  IF k > Len(sinks) THEN fs
  ELSE write_all(write(fs, sinks[k], r), sinks, k + 1, r)

console_lines(sinks, r) ==
  LET n == Cardinality({k \in 1..Len(sinks) : sinks[k].kind = "Console"})
  IN  [k \in 1..n |-> r]

Room ==
  \A k \in 1..Len(installed.sinks) :
    LET s == installed.sinks[k]
    IN  s.kind = "File" /\ s.at \in {"log", "old"}
          => Len(files[s.dir][s.at].data) + Len(installed.sinks) <= MaxLogLen

\* log::log!(lvl, ...) anywhere in the process.  The values a finished
\* build() left behind (its Logger, apply()'s locals, its result) are dropped.
emit(lvl) ==
  /\ pc = "idle"
  /\ Room
  /\ op' = "emit"
  /\ rec' = lvl
  /\ pre' = files
  /\ logger' = new
  /\ dispatch' = NoDispatch
  /\ i' = 1
  /\ ret' = "none"
  /\ IF installed.set /\ enabled(lvl, installed.level)
     THEN /\ files' = write_all(files, installed.sinks, 1, lvl)
          /\ stdout' = console_lines(installed.sinks, lvl)
     ELSE /\ files' = files
          /\ stdout' = <<>>
  /\ UNCHANGED <<dirs, installed, pc>>

\* The process ends and a fresh one starts: no logger is installed and no
\* file is open; the directories and files stay.
FreshProcess ==
  /\ pc = "idle"
  /\ op # "start"
  /\ installed' = NoLogger
  /\ stdout' = <<>>
  /\ logger' = new
  /\ dispatch' = NoDispatch
  /\ i' = 1
  /\ ret' = "none"
  /\ op' = "start"
  /\ rec' = Off
  /\ pre' = files
  /\ UNCHANGED <<dirs, files, pc>>

\* The inputs of the three specifications.  Spec exercises the file system
\* over any number of processes: every small threshold, the filter Trace and
\* two record levels.  SpecLevels exercises the level filter within one
\* process: every filter and every record level, the default threshold.
\* SpecInstall exercises the logger slot within one process: two filters,
\* the threshold 0 and the default threshold, one record level.
TargetListsOver(T) == UNION {[1..n -> T] : n \in 0..MaxTargets}

Build ==
  \E m \in 0..MaxThreshold, ts \in TargetListsOver(LogTarget) :
    build(Trace, m, ts)

Emit == \E lvl \in {Error, Warn} : emit(lvl)

BuildLevels ==
  \E l \in LevelFilter, ts \in TargetListsOver(LogTarget) :
    build(l, DEFAULT_MAX_FILE_SIZE, ts)

EmitLevels == \E lvl \in Level : emit(lvl)

BuildInstall ==
  \E l \in {Warn, Trace}, m \in {0, DEFAULT_MAX_FILE_SIZE}, ts \in TargetListsOver(LogTarget) :
    build(l, m, ts)

EmitInstall == emit(Error)

Next ==
  \/ Build
  \/ ChainConsole
  \/ CreateDir
  \/ RotateFile
  \/ ChainFile
  \/ Apply
  \/ Emit
  \/ FreshProcess

NextLevels ==
  \/ BuildLevels
  \/ ChainConsole
  \/ CreateDir
  \/ RotateFile
  \/ ChainFile
  \/ Apply
  \/ EmitLevels

NextInstall ==
  \/ BuildInstall
  \/ ChainConsole
  \/ CreateDir
  \/ RotateFile
  \/ ChainFile
  \/ Apply
  \/ EmitInstall

Spec == Init /\ [][Next]_vars

SpecInstall == Init /\ [][NextInstall]_vars

SpecLevels == Init /\ [][NextLevels]_vars

\* ================================================================== claims
\* The severity of a level or filter in the order of the LogLevel enum,
\* Trace = 1 < Debug < Info < Warn < Error = 5, with Off above every level.
Severity(l) == 6 - l

Rep(r, n) == [k \in 1..n |-> r]

Places == {"log", "old"}

\* The number of sinks of the installed logger that write to standard output,
\* and the number that hold the file now at place `at` of directory d.
ConsoleSinks == Cardinality({k \in 1..Len(installed.sinks) : installed.sinks[k].kind = "Console"})

FileSinks(d, at) ==
  Cardinality({k \in 1..Len(installed.sinks) :
                 installed.sinks[k] = [kind |-> "File", dir |-> d, at |-> at]})

\* build() has returned and nothing was done since.
Returned == op = "build" /\ pc = "idle"

DirTargets == {logger.targets[k].dir : k \in {n \in 1..Len(logger.targets) : logger.targets[n].kind = "Dir"}}

Oversized(f, max) == f.exists /\ log_size(f) > max

\* The sinks of a logger, in order, each named by the target it was attached
\* for (the place of a file sink's file left out).
SinkIds(l) ==
  [k \in 1..Len(l.sinks) |->
     IF l.sinks[k].kind = "File" THEN Dir(l.sinks[k].dir) ELSE Console]

SameLogger(a, b) == a.set = b.set /\ a.level = b.level /\ SinkIds(a) = SinkIds(b)

\* C1: with a logger installed at minimum level L, a log call whose record
\* has severity below L writes nothing to standard output or to any file, and
\* one whose record has severity at or above L writes the record once for
\* each sink: one line to standard output for each console sink, and one
\* appended line for each file sink to the file that sink holds.
C1_LevelFilter ==
  (op = "emit" /\ installed.set) =>
    LET pass == Severity(rec) >= Severity(installed.level)
    IN  /\ stdout = Rep(rec, IF pass THEN ConsoleSinks ELSE 0)
        /\ \A d \in Dirs, at \in Places :
             /\ files[d][at].exists = pre[d][at].exists
             /\ files[d][at].data =
                  pre[d][at].data \o Rep(rec, IF pass THEN FileSinks(d, at) ELSE 0)

\* A record at exactly the minimum level Warn reached a console sink and a
\* file sink.
C1_Witness ==
  /\ op = "emit"
  /\ installed.set
  /\ installed.level = Warn
  /\ rec = Warn
  /\ SinkIds(installed) = <<Console, Dir("d1")>>
  /\ stdout = <<Warn>>
  /\ files["d1"].log.data = Append(pre["d1"].log.data, Warn)

\* C2: within one process, once a logger is installed every later build()
\* ends in a failure and the installed logger keeps its level filter and its
\* sinks; with no logger installed, dispatch.apply() installs one and build()
\* returns Ok.
C2_SingleInstall ==
  [][/\ installed.set =>
          /\ SameLogger(installed', installed)
          /\ (pc # "idle" /\ pc' = "idle") => ret' \in Errors \cup {"panic"}
     /\ (~installed.set /\ pc = "loop" /\ i > Len(logger.targets)) =>
          /\ installed'.set
          /\ ret' = "Ok"]_vars

\* A second build() with another level and other targets reached
\* dispatch.apply() and failed there.
C2_Witness ==
  /\ Returned
  /\ ret = "Err:SetLoggerError"
  /\ installed.set
  /\ installed.level # dispatch.level
  /\ SinkIds(installed) # SinkIds(dispatch)
  /\ Len(dispatch.sinks) = 2

\* C3: a build() that fails in the setup of a target (rotate_file or the
\* opening of app.log) installs no logger, and a logger is installed only
\* with build() returning Ok and one sink attached for every target of the
\* list.
C3_AllOrNothing ==
  [][/\ (pc \in {"rotate", "open"} /\ ret' \in Errors) => SameLogger(installed', installed)
     /\ (pc # "idle" /\ ~SameLogger(installed', installed)) =>
          /\ ret' = "Ok"
          /\ ~installed.set
          /\ SinkIds(installed') = logger.targets]_vars

\* The second target of the list failed to open after the first was attached,
\* and no logger is installed.
C3_Witness ==
  /\ Returned
  /\ ret = "Err:log_file"
  /\ Len(logger.targets) = 2
  /\ i = 2
  /\ Len(dispatch.sinks) = 1
  /\ ~installed.set

\* C4: for an existing app.log of size S and a threshold T, rotate_file moves
\* the file to app.log.old only when S > T, and does so whenever S > T and it
\* returns Ok; with S <= T it returns Ok or fails at the size query and leaves
\* both files as they are, and the file is then opened for append with its
\* content kept.
C4_StrictThreshold ==
  [][/\ (pc = "rotate" /\ files[target.dir].log.exists) =>
          LET f == files[target.dir]
              g == files'[target.dir]
              S == log_size(f.log)
              T == logger.max_file_size
              moved == ~g.log.exists /\ g.old = f.log
          IN  /\ moved => S > T
              /\ (pc' = "open" /\ S > T) => moved
              /\ S <= T => /\ g = f
                           /\ pc' = "open" \/ ret' = "Err:metadata"
     /\ (pc = "open" /\ pc' = "loop" /\ files[target.dir].log.exists) =>
          files'[target.dir] = files[target.dir]]_vars

\* rotate_file has just moved a file of size T + 1, the first target's.
C4_Witness ==
  /\ pc = "open"
  /\ i = 1
  /\ pre[target.dir].log.exists
  /\ log_size(pre[target.dir].log) = logger.max_file_size + 1
  /\ ~files[target.dir].log.exists
  /\ files[target.dir].old = pre[target.dir].log

\* C5: after a build() that returned Ok, for every directory target whose
\* app.log was larger than max_file_size when build() was called, app.log.old
\* is exactly that app.log, app.log is an empty file, and the sinks of the
\* installed logger for that directory hold the new app.log.
C5_BackupIsOldLog ==
  (Returned /\ ret = "Ok") =>
    \A d \in DirTargets :
      Oversized(pre[d].log, logger.max_file_size) =>
        /\ files[d].old = pre[d].log
        /\ files[d].log = EmptyFile
        /\ FileSinks(d, "log") >= 1
        /\ FileSinks(d, "old") = 0

\* A build() returned Ok after rotating over an earlier backup with other
\* content.
C5_Witness ==
  /\ Returned
  /\ ret = "Ok"
  /\ \E d \in DirTargets :
       /\ Oversized(pre[d].log, logger.max_file_size)
       /\ pre[d].old.exists
       /\ pre[d].old.data # <<>>
       /\ pre[d].old.data # pre[d].log.data
       /\ files[d].old = pre[d].log

C7_NoMidSessionRotation ==
  installed.set =>
    \A k \in 1..Len(installed.sinks) :
      installed.sinks[k].kind = "File" => installed.sinks[k].at = "log"

\* C8: a build() returns Ok only with every directory target's app.log at or
\* under max_file_size, and a logger is installed only by such a build().
C8_NoSuccessOversized ==
  /\ (Returned /\ ret = "Ok") =>
       \A d \in DirTargets : ~Oversized(files[d].log, logger.max_file_size)
  /\ (op = "build" /\ pc # "idle") =>
       \A k \in 1..(i - 1) :
         logger.targets[k].kind = "Dir" =>
           ~Oversized(files[logger.targets[k].dir].log, logger.max_file_size)

\* The old backup was deleted, the rename failed, build() returned the error
\* and the oversized file is still the active log; no logger is installed.
C8_Witness ==
  /\ Returned
  /\ ret = "Err:rename"
  /\ ~installed.set
  /\ \E d \in DirTargets :
       /\ pre[d].old.exists
       /\ ~files[d].old.exists
       /\ files[d].log = pre[d].log
       /\ Oversized(files[d].log, logger.max_file_size)

\* C9: after a build() that returned a failure, every file is as it was when
\* build() was called.
C9_FailedBuildLeavesFiles ==
  (Returned /\ ret \in Errors) => files = pre

\* C10: after rotate_file, whatever it returned, the content app.log held
\* before is the content of app.log or of app.log.old.
C10_ContentKept ==
  [][(pc = "rotate" /\ files[target.dir].log.exists) =>
       \/ files'[target.dir].log = files[target.dir].log
       \/ files'[target.dir].old = files[target.dir].log]_vars

\* rotate_file failed at the deletion of the old backup of an oversized,
\* non-empty app.log.
C10_Witness ==
  /\ Returned
  /\ ret = "Err:remove_file"
  /\ \E d \in DirTargets :
       /\ files[d] = pre[d]
       /\ files[d].old.exists
       /\ files[d].log.data # <<>>
       /\ Oversized(files[d].log, logger.max_file_size)

====
